---------------------------- MODULE Spec2Model ----------------------------
(***************************************************************************)
(* find-uncommitted: a model of the status prober (checkRepoStatus), the   *)
(* repository locator (findGitRepos over filepath.Walk), the dispatcher    *)
(* (main's goroutines, WaitGroup and results channel), the reporter        *)
(* (displayRepoStatusTable, exportToCSV, the summary) and the companion    *)
(* tool fix-ownership.                                                     *)
(*                                                                         *)
(* Go strings are sequences of pieces.  A piece is one character of a path *)
(* (a separator, a dot), one path-name fragment, or one whole fragment of  *)
(* a message literal; concatenation is \o and "" is << >>.  The same text  *)
(* is always cut into the same pieces, so equality of sequences is         *)
(* equality of strings.                                                    *)
(***************************************************************************)
EXTENDS Integers, Sequences, FiniteSets, TLC

VARIABLES
    status,     \* checkRepoStatus: the RepoStatus under construction
    ppc,        \* checkRepoStatus: the next step of the probe
    calls,      \* checkRepoStatus: the git commands invoked so far, with results
    repos,      \* the repository paths findGitRepos has appended / main ranges over
    dirtyOnly,  \* the --dirty-only flag
    mpc,        \* main: where the main goroutine is
    spawned,    \* main: how many iterations of the spawning loop have run
    gpc,        \* per probe goroutine: where it is
    gstatus,    \* per probe goroutine: its local variable status
    wg,         \* the WaitGroup's counter
    statusChan, \* the buffered channel's queue
    chanClosed, \* whether statusChan is closed
    cpc,        \* the closer goroutine: where it is
    panicked,   \* a goroutine panicked (send on, or close of, a closed channel)
    results,    \* main: the results slice
    table,      \* the rows displayRepoStatusTable printed
    summary,    \* the counts of the summary line
    sep,        \* filepath.Separator of the platform the program is built for
    rootDir,    \* findGitRepos: the scan root as given
    tree,       \* the directory tree under the scan root
    wpc,        \* filepath.Walk: where the walk is
    wstack,     \* filepath.Walk: the directories whose entries are being ranged over
    visited,    \* the calls of the walk callback so far
    walkErr,    \* what filepath.Walk returned
    outputFile, \* the --output flag
    wd,         \* what os.Getwd returns
    csvFile,    \* the records exportToCSV has written to the export file
    received,   \* the statuses the collecting loop has received, in order
    fpc,        \* fix-ownership: where its main is
    frun,       \* fix-ownership: which run of the tool this is
    fidx,       \* fix-ownership: the index of the repository the loop is at
    fixedCount, \* fix-ownership: the counter of the run
    foreign,    \* the repositories owned by somebody other than the user
    safeDirs,   \* the safe.directory values of the user's global git configuration
    checks,     \* the calls of hasOwnershipIssue so far, with their results
    fixes,      \* the calls of fixOwnership so far, with their results
    totals      \* the totals the runs of fix-ownership have printed

probeVars == <<status, ppc, calls>>
mainVars == <<dirtyOnly, mpc, spawned, gpc, gstatus, wg, statusChan, chanClosed,
              cpc, panicked, results, table, summary, outputFile, wd, csvFile,
              received>>
fixVars == <<fpc, frun, fidx, fixedCount, foreign, safeDirs, checks, fixes, totals>>
walkVars == <<sep, rootDir, tree, wpc, wstack, visited, walkErr>>
vars == <<status, ppc, calls, repos, dirtyOnly, mpc, spawned, gpc, gstatus, wg,
          statusChan, chanClosed, cpc, panicked, results, table, summary,
          sep, rootDir, tree, wpc, wstack, visited, walkErr,
          outputFile, wd, csvFile, received,
          fpc, frun, fidx, fixedCount, foreign, safeDirs, checks, fixes, totals>>

----------------------------------------------------------------------------
(* strings *)

\* The largest commit count git reports in the model.
MaxCount == 10

Digit(d) ==
    CASE d = 0 -> "0" [] d = 1 -> "1" [] d = 2 -> "2" [] d = 3 -> "3"
      [] d = 4 -> "4" [] d = 5 -> "5" [] d = 6 -> "6" [] d = 7 -> "7"
      [] d = 8 -> "8" [] d = 9 -> "9"

RECURSIVE Itoa(_)
\* The decimal text of a natural number, one piece per digit.
Itoa(n) ==
    IF n < 10 THEN <<Digit(n)>> ELSE Itoa(n \div 10) \o <<Digit(n % 10)>>

IsSpace(c) == c \in {" ", "\n", "\t", "\r"}

RECURSIVE TrimLeft(_)
TrimLeft(s) ==
    IF s # << >> /\ IsSpace(Head(s)) THEN TrimLeft(Tail(s)) ELSE s

RECURSIVE TrimRight(_)
TrimRight(s) ==
    IF s # << >> /\ IsSpace(s[Len(s)]) THEN TrimRight(SubSeq(s, 1, Len(s) - 1))
    ELSE s

\* strings.TrimSpace
TrimSpace(s) == TrimRight(TrimLeft(s))

\* strings.Contains
Contains(s, sub) ==
    \E i \in 1..(Len(s) - Len(sub) + 1) : SubSeq(s, i, i + Len(sub) - 1) = sub

\* strings.HasPrefix
HasPrefix(s, pre) == Len(s) >= Len(pre) /\ SubSeq(s, 1, Len(pre)) = pre

\* strings.ReplaceAll for a one-character old and new
ReplaceAll(s, old, new) == [i \in 1..Len(s) |-> IF s[i] = old THEN new ELSE s[i]]

RECURSIVE Join(_, _)
\* strings.Join
Join(elems, sepText) ==
    IF elems = << >> THEN << >>
    ELSE IF Len(elems) = 1 THEN elems[1]
    ELSE CHOOSE r \in
            { elems[1] \o <<sepText>> \o Join(rest, sepText) : rest \in {Tail(elems)} } : TRUE

----------------------------------------------------------------------------
(* exec.Command(...).Output(): what one git invocation returns *)

\* kind "ok": err == nil, out is the captured standard output.
\* kind "exit": err is an *exec.ExitError with exit code and captured stderr.
\* kind "other": err is not an *exec.ExitError (git could not be started).
Ok(out) == [kind |-> "ok", code |-> 0, out |-> out, stderr |-> << >>]
Exit(code, stderr) == [kind |-> "exit", code |-> code, out |-> << >>, stderr |-> stderr]
NoExec == [kind |-> "other", code |-> 0, out |-> << >>, stderr |-> << >>]

Failed(o) == o.kind # "ok"
IsExitError(o) == o.kind = "exit"

\* fmt's %v of the error
ErrText(o) ==
    IF o.kind = "exit" THEN <<"exit status ">> \o Itoa(o.code)
    ELSE <<"exec: \"git\": executable file not found in $PATH">>

DubiousStderr == <<"fatal: detected ", "dubious ownership", " in repository">>
NotARepoStderr == <<"fatal: not a git repository">>

ValidityOutcomes ==
    {Ok(<<".", "git", "\n">>), Exit(128, DubiousStderr), Exit(128, NotARepoStderr), NoExec}
BranchOutcomes ==
    {Ok(<<"main", "\n">>), Ok(<< >>), Exit(1, << >>), Exit(128, << >>), NoExec}
HashOutcomes == {Ok(<<"abc1234", "\n">>), Exit(128, << >>), NoExec}
ListOutcomes == {Ok(<< >>), Ok(<<"\n">>), Ok(<<"f", ".", "txt", "\n">>), Exit(128, << >>), NoExec}
CountOutcomes ==
    {Ok(Itoa(n) \o <<"\n">>) : n \in 0..MaxCount} \cup {Exit(128, << >>), Exit(1, << >>), NoExec}

\* The repository paths handed to checkRepoStatus in the model: a Windows
\* path, a path with both separators, a Unix path.
ProbePaths ==
    { <<"C:", "\\", "src", "\\", "app">>,
      <<"C:", "\\", "src", "/", "lib">>,
      <<"/", "home", "/", "app">> }

----------------------------------------------------------------------------
(* checkRepoStatus *)

NewStatus(repoPath) ==
    [Path |-> repoPath, HasUnstaged |-> FALSE, HasStaged |-> FALSE,
     HasUntracked |-> FALSE, HasUnpushed |-> FALSE, Branch |-> << >>,
     IsClean |-> FALSE, Error |-> << >>]

Call(cmd, o) == [cmd |-> cmd, res |-> o]

\* The hint with the path as given: the separators are not normalised.
OwnershipHintRaw(repoPath) ==
    <<"Git ownership issue - run: git config --global --add safe.directory ">>
        \o repoPath

OwnershipHint(repoPath) ==
    <<"Git ownership issue - run: git config --global --add safe.directory ">>
        \o ReplaceAll(repoPath, "\\", "/")

\* Each step returns the status after it, whether checkRepoStatus returns
\* there, and the git commands it ran.
ValidityStep(st, o) ==
    LET c == <<Call("rev-parse --git-dir", o)>> IN
    IF Failed(o) THEN
        IF IsExitError(o) /\ Contains(o.stderr, <<"dubious ownership">>)
        THEN [st |-> [st EXCEPT !.Error = OwnershipHint(st.Path)], ret |-> TRUE, calls |-> c]
        ELSE [st |-> [st EXCEPT !.Error = <<"Not a valid git repository">>],
              ret |-> TRUE, calls |-> c]
    ELSE [st |-> st, ret |-> FALSE, calls |-> c]

\* The branch failure leaves Error empty.
BranchErrorNone(o) == << >>

\* fmt.Sprintf("Branch issue: %v", err)
BranchError(o) == <<"Branch issue: ">> \o ErrText(o)

BranchStep(st, o, h) ==
    LET cb == Call("branch --show-current", o)
        ch == Call("rev-parse --short HEAD", h) IN
    IF Failed(o) THEN
        IF IsExitError(o) /\ o.code = 1 THEN
            IF ~Failed(h)
            THEN [st |-> [st EXCEPT !.Branch =
                            <<"detached HEAD (">> \o TrimSpace(h.out) \o <<")">>],
                  ret |-> FALSE, calls |-> <<cb, ch>>]
            ELSE [st |-> [st EXCEPT !.Branch = <<"detached HEAD">>,
                                    !.Error = BranchError(o)],
                  ret |-> FALSE, calls |-> <<cb, ch>>]
        ELSE [st |-> [st EXCEPT !.Branch = <<"unknown">>,
                                !.Error = BranchError(o)],
              ret |-> FALSE, calls |-> <<cb>>]
    ELSE [st |-> [st EXCEPT !.Branch = TrimSpace(o.out)], ret |-> FALSE, calls |-> <<cb>>]

\* The listing failure is not recorded.
ListErrorDropped(st, first, later, o) == st.Error

\* The listing failure overwrites an earlier Error.
ListErrorOverwrite(st, first, later, o) == <<first>> \o ErrText(o)

\* The error recorded when a listing command fails: a message of its own when
\* Error is empty, appended after "; " otherwise.
ListError(st, first, later, o) ==
    IF st.Error = << >> THEN <<first>> \o ErrText(o)
    ELSE st.Error \o <<"; ", later>> \o ErrText(o)

UnstagedStep(st, o) ==
    LET c == <<Call("diff --name-only", o)>> IN
    IF Failed(o)
    THEN [st |-> [st EXCEPT !.Error = ListError(st, "Failed to check unstaged changes: ",
                                                "unstaged check failed: ", o)],
          ret |-> TRUE, calls |-> c]
    ELSE [st |-> [st EXCEPT !.HasUnstaged = Len(TrimSpace(o.out)) > 0],
          ret |-> FALSE, calls |-> c]

StagedStep(st, o) ==
    LET c == <<Call("diff --cached --name-only", o)>> IN
    IF Failed(o)
    THEN [st |-> [st EXCEPT !.Error = ListError(st, "Failed to check staged changes: ",
                                                "staged check failed: ", o)],
          ret |-> TRUE, calls |-> c]
    ELSE [st |-> [st EXCEPT !.HasStaged = Len(TrimSpace(o.out)) > 0],
          ret |-> FALSE, calls |-> c]

UntrackedStep(st, o) ==
    LET c == <<Call("ls-files --others --exclude-standard", o)>> IN
    IF Failed(o)
    THEN [st |-> [st EXCEPT !.Error = ListError(st, "Failed to check untracked files: ",
                                                "untracked check failed: ", o)],
          ret |-> TRUE, calls |-> c]
    ELSE [st |-> [st EXCEPT !.HasUntracked = Len(TrimSpace(o.out)) > 0],
          ret |-> FALSE, calls |-> c]

\* IsClean computed without the unpushed flag.
ComputeIsCleanNoUnpushed(st) ==
    ~st.HasUnstaged /\ ~st.HasStaged /\ ~st.HasUntracked

\* status.IsClean = !HasUnstaged && !HasStaged && !HasUntracked && !HasUnpushed
ComputeIsClean(st) ==
    ~st.HasUnstaged /\ ~st.HasStaged /\ ~st.HasUntracked /\ ~st.HasUnpushed

\* The counts compared without strings.TrimSpace.
UnpushedFlagNoTrim(st, o, h) ==
    IF Failed(o) THEN
        IF IsExitError(o) /\ o.code = 128
        THEN IF ~Failed(h) /\ h.out # <<"0">> THEN TRUE ELSE st.HasUnpushed
        ELSE st.HasUnpushed
    ELSE IF o.out # <<"0">> THEN TRUE ELSE st.HasUnpushed

\* The unpushed step itself: what HasUnpushed is after it.
UnpushedFlag(st, o, h) ==
    IF Failed(o) THEN
        IF IsExitError(o) /\ o.code = 128
        THEN IF ~Failed(h) /\ TrimSpace(h.out) # <<"0">> THEN TRUE ELSE st.HasUnpushed
        ELSE st.HasUnpushed
    ELSE IF TrimSpace(o.out) # <<"0">> THEN TRUE ELSE st.HasUnpushed

\* The unpushed step and the end of checkRepoStatus.
UnpushedStep(st, o, h) ==
    LET cu == Call("rev-list --count @{u}..HEAD", o)
        ch == Call("rev-list --count HEAD", h)
        s1 == [st EXCEPT !.HasUnpushed = UnpushedFlag(st, o, h)] IN
    [st |-> [s1 EXCEPT !.IsClean = ComputeIsClean(s1)], ret |-> TRUE,
     calls |-> IF Failed(o) /\ IsExitError(o) /\ o.code = 128 THEN <<cu, ch>> ELSE <<cu>>]

\* checkRepoStatus as one function of the repository path and of what each
\* git invocation returns (o.hash and o.head are read only when the fallback
\* they belong to runs).
CheckRepoStatus(repoPath, o) ==
    LET r1 == ValidityStep(NewStatus(repoPath), o.valid)
        r2 == BranchStep(r1.st, o.branch, o.hash)
        r3 == UnstagedStep(r2.st, o.unstaged)
        r4 == StagedStep(r3.st, o.staged)
        r5 == UntrackedStep(r4.st, o.untracked)
        r6 == UnpushedStep(r5.st, o.upstream, o.head) IN
    IF r1.ret THEN r1.st
    ELSE IF r3.ret THEN r3.st
    ELSE IF r4.ret THEN r4.st
    ELSE IF r5.ret THEN r5.st
    ELSE r6.st

----------------------------------------------------------------------------
(* ProbeSpec: one run of checkRepoStatus, one git step per action *)

\* The variables of main, while main is not what runs.
MainIdle ==
    /\ dirtyOnly = FALSE
    /\ mpc = "idle"
    /\ spawned = 0
    /\ gpc = << >>
    /\ gstatus = << >>
    /\ wg = 0
    /\ statusChan = << >>
    /\ chanClosed = FALSE
    /\ cpc = "none"
    /\ panicked = FALSE
    /\ results = << >>
    /\ table = << >>
    /\ summary = << >>
    /\ outputFile = << >>
    /\ wd = << >>
    /\ csvFile = << >>
    /\ received = << >>

\* The variables of fix-ownership, while it is not what runs.
FixIdle ==
    /\ fpc = "idle"
    /\ frun = 0
    /\ fidx = 0
    /\ fixedCount = 0
    /\ foreign = {}
    /\ safeDirs = << >>
    /\ checks = {}
    /\ fixes = {}
    /\ totals = << >>

\* The variables of findGitRepos, while it is not what runs.
WalkIdle ==
    /\ rootDir = << >>
    /\ tree = << >>
    /\ wpc = "idle"
    /\ wstack = << >>
    /\ visited = {}
    /\ walkErr = "nil"

\* The variables of checkRepoStatus, while it is not what runs.
ProbeIdle ==
    /\ status = NewStatus(<< >>)
    /\ ppc = "idle"
    /\ calls = << >>

ProbeInit ==
    /\ \E p \in ProbePaths : status = NewStatus(p)
    /\ ppc = "validity"
    /\ calls = << >>
    /\ repos = << >>
    /\ sep = "/"
    /\ MainIdle
    /\ WalkIdle
    /\ FixIdle

ProbeAdvance(r, next) ==
    /\ status' = r.st
    /\ calls' = calls \o r.calls
    /\ ppc' = IF r.ret THEN "done" ELSE next
    /\ UNCHANGED <<repos, mainVars, walkVars, fixVars>>

ProbeValidity ==
    /\ ppc = "validity"
    /\ \E o \in ValidityOutcomes : ProbeAdvance(ValidityStep(status, o), "branch")

ProbeBranch ==
    /\ ppc = "branch"
    /\ \E o \in BranchOutcomes, h \in HashOutcomes :
          ProbeAdvance(BranchStep(status, o, h), "unstaged")

ProbeUnstaged ==
    /\ ppc = "unstaged"
    /\ \E o \in ListOutcomes : ProbeAdvance(UnstagedStep(status, o), "staged")

ProbeStaged ==
    /\ ppc = "staged"
    /\ \E o \in ListOutcomes : ProbeAdvance(StagedStep(status, o), "untracked")

ProbeUntracked ==
    /\ ppc = "untracked"
    /\ \E o \in ListOutcomes : ProbeAdvance(UntrackedStep(status, o), "unpushed")

ProbeUnpushed ==
    /\ ppc = "unpushed"
    /\ \E o \in CountOutcomes, h \in CountOutcomes :
          ProbeAdvance(UnpushedStep(status, o, h), "done")

ProbeNext ==
    \/ ProbeValidity
    \/ ProbeBranch
    \/ ProbeUnstaged
    \/ ProbeStaged
    \/ ProbeUntracked
    \/ ProbeUnpushed

ProbeSpec == ProbeInit /\ [][ProbeNext]_vars

----------------------------------------------------------------------------
(* path/filepath on piece sequences (no volume names) *)

\* os.IsPathSeparator: '/' is a separator on Windows too
IsPathSeparator(c) == c = sep \/ (sep = "\\" /\ c = "/")

RECURSIVE StripTrailing(_)
StripTrailing(p) ==
    IF p # << >> /\ IsPathSeparator(p[Len(p)])
    THEN StripTrailing(SubSeq(p, 1, Len(p) - 1))
    ELSE p

\* The index of the last separator of p, 0 when it has none.
LastSepIndex(p) ==
    LET S == {i \in 1..Len(p) : IsPathSeparator(p[i])} IN
    IF S = {} THEN 0 ELSE CHOOSE i \in S : \A j \in S : j <= i

RECURSIVE SplitFrom(_, _, _)
\* (the set constructor binds the arguments of the recursive call once)
SplitFrom(p, cur, acc) ==
    IF p = << >> THEN (IF cur = << >> THEN acc ELSE Append(acc, cur))
    ELSE CHOOSE r \in
            { SplitFrom(rest, c, a) :
                rest \in {Tail(p)},
                c \in {IF IsPathSeparator(Head(p)) THEN << >> ELSE Append(cur, Head(p))},
                a \in {IF IsPathSeparator(Head(p)) /\ cur # << >>
                       THEN Append(acc, cur) ELSE acc} } : TRUE

\* The non-empty elements of a path, in order.
Elements(p) == SplitFrom(p, << >>, << >>)

RECURSIVE CleanElems(_, _, _)
\* (the set constructor binds the arguments of the recursive call once)
CleanElems(elems, out, rooted) ==
    IF elems = << >> THEN out
    ELSE LET e == Head(elems) IN
         CHOOSE r \in
            { CleanElems(rest, o, rooted) :
                rest \in {Tail(elems)},
                o \in { IF e = <<".">> THEN out
                        ELSE IF e = <<".", ".">> THEN
                            IF out # << >> /\ out[Len(out)] # <<".", ".">>
                            THEN SubSeq(out, 1, Len(out) - 1)
                            ELSE IF rooted THEN out
                            ELSE Append(out, e)
                        ELSE Append(out, e) } } : TRUE

\* filepath.Clean
Clean(path) ==
    IF path = << >> THEN <<".">>
    ELSE LET rooted == IsPathSeparator(path[1])
             out == CleanElems(Elements(path), << >>, rooted)
             res == (IF rooted THEN <<sep>> ELSE << >>) \o Join(out, sep) IN
         IF res = << >> THEN <<".">> ELSE res

\* filepath.Base
Base(path) ==
    IF path = << >> THEN <<".">>
    ELSE LET p == StripTrailing(path)
             q == SubSeq(p, LastSepIndex(p) + 1, Len(p)) IN
         IF q = << >> THEN <<sep>> ELSE q

\* filepath.Dir
Dir(path) == Clean(SubSeq(path, 1, LastSepIndex(path)))

\* filepath.Join(dir, name)
JoinPath(dir, name) == Clean(dir \o <<sep>> \o name)

----------------------------------------------------------------------------
(* main: the dispatcher and the reporter *)

\* The most repositories findGitRepos hands to main in the model.
MaxRepos == 2

\* The i-th located repository path: distinct paths, as the walk visits
\* every .git directory once.
RepoPath(i) ==
    <<"C:", "\\", "src", "\\">>
        \o (IF i % 2 = 0 THEN <<"customer-projects-archive-of-experiments-2019", "\\">>
            ELSE << >>)
        \o <<"r">> \o Itoa(i)

AllOk ==
    [valid |-> Ok(<<".", "git", "\n">>), branch |-> Ok(<<"main", "\n">>),
     hash |-> Ok(<<"abc1234", "\n">>), unstaged |-> Ok(<< >>), staged |-> Ok(<< >>),
     untracked |-> Ok(<< >>), upstream |-> Ok(<<"0", "\n">>), head |-> Ok(<<"0", "\n">>)]

\* What git answers for one repository in a run of main: a clean repository;
\* one on a long-named branch with an untracked file, three commits and no
\* upstream; an ownership-rejected one; one whose branch command fails and
\* that is otherwise clean; one whose unstaged listing fails.
Scenarios ==
    { AllOk,
      [AllOk EXCEPT !.branch = Ok(<<"feature/", "reporting-export", "\n">>),
                    !.untracked = Ok(<<"f", ".", "txt", "\n">>),
                    !.upstream = Exit(128, << >>), !.head = Ok(<<"3", "\n">>)],
      [AllOk EXCEPT !.valid = Exit(128, DubiousStderr)],
      [AllOk EXCEPT !.branch = Exit(128, << >>)],
      [AllOk EXCEPT !.unstaged = NoExec] }

\* A channel one slot short of the number of probes.
ChanCapLess == Len(repos) - 1

\* make(chan RepoStatus, len(repos))
ChanCap == Len(repos)

\* wg.Wait() returns without waiting for the counter.
WaitReturnsAtOnce == TRUE

\* wg.Wait() returns when the counter is zero.
WaitReturns == wg = 0

\* The range loop ends as soon as the channel is empty.
RangeEndsWhenEmpty == statusChan = << >>

\* for status := range statusChan ends when the channel is closed and drained.
RangeEnds == statusChan = << >> /\ chanClosed

\* The filter without the error test: every clean status is dropped.
DroppedAnyClean(st) == dirtyOnly /\ st.IsClean

\* The filter of the collecting loop: whether a received status is dropped.
Dropped(st) == dirtyOnly /\ st.Error = << >> /\ st.IsClean

\* The changes of a status, in the order the reporter lists them.
Changes(st) ==
    (IF st.HasUnstaged THEN <<(<<"unstaged">>)>> ELSE << >>)
    \o (IF st.HasStaged THEN <<(<<"staged">>)>> ELSE << >>)
    \o (IF st.HasUntracked THEN <<(<<"untracked">>)>> ELSE << >>)
    \o (IF st.HasUnpushed THEN <<(<<"unpushed">>)>> ELSE << >>)

\* len(s[:i]) for every i: the bytes of the first i pieces, the pieces of the
\* model being ASCII text
PrefixLens(s) ==
    LET f[i \in 0..Len(s)] == IF i = 0 THEN 0 ELSE f[i - 1] + Len(s[i]) IN f

\* len(s)
ByteLen(s) == PrefixLens(s)[Len(s)]

\* s[:n], cutting the piece the n-th byte falls inside
FirstBytes(s, n) ==
    LET pre == PrefixLens(s)
        m == CHOOSE i \in 0..Len(s) :
                 pre[i] <= n /\ \A j \in 0..Len(s) : pre[j] <= n => j <= i IN
    SubSeq(s, 1, m)
        \o (IF m < Len(s) /\ pre[m] < n THEN <<SubSeq(s[m + 1], 1, n - pre[m])>> ELSE << >>)

\* s[len(s)-n:], cutting the piece the cut falls inside
LastBytes(s, n) ==
    LET pre == PrefixLens(s)
        from == pre[Len(s)] - n
        m == CHOOSE i \in 0..Len(s) :
                 pre[i] >= from /\ \A j \in 0..Len(s) : pre[j] >= from => i <= j IN
    (IF m > 0 /\ pre[m] > from
     THEN <<SubSeq(s[m], Len(s[m]) - (pre[m] - from) + 1, Len(s[m]))>> ELSE << >>)
        \o SubSeq(s, m + 1, Len(s))

\* The widths of the table's truncations
PathWidth == 42
PathKept == 39
BranchWidth == 17
BranchKept == 14

\* filepath.VolumeName: a drive letter, on Windows only
VolumeName(p) ==
    IF sep = "\\" /\ p # << >> /\ p[1] \in {"C:", "D:"} THEN <<p[1]>> ELSE << >>

\* How many leading elements two element lists share.
CommonPrefix(be, te) ==
    LET S == {k \in 0..Len(be) : k <= Len(te) /\ SubSeq(be, 1, k) = SubSeq(te, 1, k)} IN
    CHOOSE k \in S : \A j \in S : j <= k

\* filepath.Rel after its first lines: the volumes, the cleaned base and
\* target without their volumes, and their elements
RelOf(baseVol, targVol, cb, targ, be, te) ==
    LET base == IF cb = <<".">> THEN << >> ELSE cb
        baseSlashed == base # << >> /\ base[1] = sep
        targSlashed == targ # << >> /\ targ[1] = sep IN
    IF baseVol = targVol /\ cb = targ THEN [path |-> <<".">>, ok |-> TRUE]
    ELSE IF baseSlashed # targSlashed \/ baseVol # targVol
         THEN [path |-> << >>, ok |-> FALSE]
    ELSE \* every k is CommonPrefix(be, te), bound once
         CHOOSE r \in
            { IF k < Len(be) /\ be[k + 1] = <<".", ".">> THEN [path |-> << >>, ok |-> FALSE]
              ELSE [path |-> Join([i \in 1..(Len(be) - k) |-> <<".", ".">>]
                                      \o SubSeq(te, k + 1, Len(te)), sep),
                    ok |-> TRUE] : k \in {CommonPrefix(be, te)} } : TRUE

\* filepath.Rel(basepath, targpath): the relative path, or "" with an error.
\* The set constructors bind each intermediate value once.
Rel(basepath, targpath) ==
    CHOOSE r \in
        { CHOOSE q \in { RelOf(VolumeName(basepath), VolumeName(targpath), cb, targ,
                               be, te) : be \in {Elements(cb)}, te \in {Elements(targ)} } : TRUE :
            cb \in {Clean(SubSeq(basepath, Len(VolumeName(basepath)) + 1, Len(basepath)))},
            targ \in {Clean(SubSeq(targpath, Len(VolumeName(targpath)) + 1, Len(targpath)))} } :
        TRUE

\* if len(relPath) > 42 { relPath = "..." + relPath[len(relPath)-39:] }
TruncatePath(relPath) ==
    IF ByteLen(relPath) > PathWidth
    THEN <<"...">> \o LastBytes(relPath, PathKept)
    ELSE relPath

\* The Repository column, of the table and of the export: the path relative
\* to the working directory w (r: what filepath.Rel returned), truncated
RelPath(w, path) ==
    CHOOSE relPath \in
        { TruncatePath(IF r = <<".">> THEN path ELSE r) : r \in {Rel(w, path).path} } : TRUE

\* The Branch column, of the table and of the export
BranchText(st) ==
    IF ByteLen(st.Branch) > BranchWidth
    THEN FirstBytes(st.Branch, BranchKept) \o <<"...">>
    ELSE st.Branch

\* A marker that drops the error test: IsClean decides first.
StatusTextCleanFirst(st) ==
    IF st.IsClean THEN <<"(check mark)", " ", "Clean">>
    ELSE IF st.Error # << >> THEN <<"(cross mark)", " ", "Error">>
    ELSE <<"(warning sign)", "  ", "Dirty">>

\* displayRepoStatusTable's statusText: a symbol (named here, one piece),
\* the blanks after it and the marker word
StatusText(st) ==
    IF st.Error # << >> THEN <<"(cross mark)", " ", "Error">>
    ELSE IF st.IsClean THEN <<"(check mark)", " ", "Clean">>
    ELSE <<"(warning sign)", "  ", "Dirty">>

\* displayRepoStatusTable's changesText
ChangesText(st) ==
    IF st.Error # << >> THEN st.Error
    ELSE IF st.IsClean THEN <<"-">>
    ELSE Join(Changes(st), ", ")

\* One row of displayRepoStatusTable, printed with working directory w
Row(st, w) ==
    [Repository |-> RelPath(w, st.Path), Branch |-> BranchText(st),
     Status |-> StatusText(st), Changes |-> ChangesText(st)]

\* exportToCSV's statusText
CsvStatusText(st) ==
    IF st.Error # << >> THEN <<"Error", ":", " ">> \o st.Error
    ELSE IF st.IsClean THEN <<"Clean">>
    ELSE <<"Dirty">>

\* The record with the path as probed: not relative, not truncated.
CsvRowFullPath(st, w) ==
    [Repository |-> st.Path, Branch |-> BranchText(st),
     Status |-> CsvStatusText(st), Changes |-> Join(Changes(st), ", ")]

\* One record exportToCSV hands to writer.Write
CsvRow(st, w) ==
    [Repository |-> RelPath(w, st.Path), Branch |-> BranchText(st),
     Status |-> CsvStatusText(st), Changes |-> Join(Changes(st), ", ")]

CsvHeader ==
    [Repository |-> <<"Repository">>, Branch |-> <<"Branch">>,
     Status |-> <<"Status">>, Changes |-> <<"Changes">>]

\* What the file system does to one export of n statuses: os.Create fails,
\* or the file is created and the first `writes` calls of writer.Write
\* succeed (n + 1: all of them).
ExportOutcomes(n) ==
    {[created |-> FALSE, writes |-> 0]}
        \cup {[created |-> TRUE, writes |-> k] : k \in 0..(n + 1)}

\* exportToCSV(results, filename): the error it returns and the records the
\* file holds
ExportToCSV(rs, w, o) ==
    LET all == <<CsvHeader>> \o [k \in 1..Len(rs) |-> CsvRow(rs[k], w)] IN
    IF ~o.created THEN [err |-> "create", records |-> << >>]
    ELSE IF o.writes = 0 THEN [err |-> "header", records |-> << >>]
    ELSE IF o.writes <= Len(rs) THEN [err |-> "row", records |-> SubSeq(all, 1, o.writes)]
    ELSE [err |-> "nil", records |-> all]

RECURSIVE Count(_, _)
\* How many statuses of a slice the summary loop counts under one label.
Count(rs, label) ==
    IF rs = << >> THEN 0
    ELSE LET st == Head(rs)
             class == IF st.Error # << >> THEN "Error"
                      ELSE IF st.IsClean THEN "Clean"
                      ELSE "Dirty" IN
         (IF class = label THEN 1 ELSE 0) + Count(Tail(rs), label)

\* The values of --output in the model: not given, a file name.
OutputFiles == { << >>, <<"results", ".", "csv">> }

\* The working directories in the model: the parent of the repositories, the
\* first repository itself, a directory on another drive.
WorkingDirs ==
    { <<"C:", "\\", "src">>, RepoPath(1), <<"D:", "\\", "work">> }

MainInit ==
    /\ \E n \in 0..MaxRepos : repos = [i \in 1..n |-> RepoPath(i)]
    /\ dirtyOnly \in BOOLEAN
    /\ mpc = "start"
    /\ spawned = 0
    /\ gpc = [i \in 1..Len(repos) |-> "unborn"]
    /\ gstatus = [i \in 1..Len(repos) |-> NewStatus(<< >>)]
    /\ wg = 0
    /\ statusChan = << >>
    /\ chanClosed = FALSE
    /\ cpc = "none"
    /\ panicked = FALSE
    /\ results = << >>
    /\ table = << >>
    /\ summary = << >>
    /\ outputFile \in OutputFiles
    /\ wd = << >>
    /\ csvFile = << >>
    /\ received = << >>
    /\ sep = "\\"
    /\ ProbeIdle
    /\ WalkIdle
    /\ FixIdle

\* if len(repos) == 0 { ...; return }
MainStart ==
    /\ mpc = "start"
    /\ ~panicked
    /\ mpc' = IF Len(repos) = 0 THEN "exit" ELSE "spawn"
    /\ UNCHANGED <<probeVars, walkVars, fixVars, outputFile, wd, csvFile, received,
                   repos, dirtyOnly, spawned, gpc, gstatus, wg, statusChan,
                   chanClosed, cpc, panicked, results, table, summary>>

\* One iteration of the spawning loop: wg.Add(1); go func(repoPath) {...}(repo)
MainSpawn ==
    /\ mpc = "spawn"
    /\ ~panicked
    /\ spawned < Len(repos)
    /\ wg' = wg + 1
    /\ spawned' = spawned + 1
    /\ gpc' = [gpc EXCEPT ![spawned + 1] = "probe"]
    /\ UNCHANGED <<probeVars, walkVars, fixVars, outputFile, wd, csvFile, received,
                   repos, dirtyOnly, mpc, gstatus, statusChan, chanClosed,
                   cpc, panicked, results, table, summary>>

\* After the loop: go func() { wg.Wait(); close(statusChan) }()
MainStartCloser ==
    /\ mpc = "spawn"
    /\ ~panicked
    /\ spawned = Len(repos)
    /\ cpc' = "wait"
    /\ mpc' = "collect"
    /\ UNCHANGED <<probeVars, walkVars, fixVars, outputFile, wd, csvFile, received,
                   repos, dirtyOnly, spawned, gpc, gstatus, wg, statusChan,
                   chanClosed, panicked, results, table, summary>>

\* status := checkRepoStatus(repoPath), every git invocation returning
GoProbe(i) ==
    /\ gpc[i] = "probe"
    /\ ~panicked
    /\ mpc # "exit"
    /\ \E o \in Scenarios :
          gstatus' = [gstatus EXCEPT ![i] = CheckRepoStatus(repos[i], o)]
    /\ gpc' = [gpc EXCEPT ![i] = "send"]
    /\ UNCHANGED <<probeVars, walkVars, fixVars, outputFile, wd, csvFile, received,
                   repos, dirtyOnly, mpc, spawned, wg, statusChan,
                   chanClosed, cpc, panicked, results, table, summary>>

\* A git invocation of checkRepoStatus never returns (there is no timeout).
GoHang(i) ==
    /\ gpc[i] = "probe"
    /\ ~panicked
    /\ mpc # "exit"
    /\ gpc' = [gpc EXCEPT ![i] = "hung"]
    /\ UNCHANGED <<probeVars, walkVars, fixVars, outputFile, wd, csvFile, received,
                   repos, dirtyOnly, mpc, spawned, gstatus, wg, statusChan,
                   chanClosed, cpc, panicked, results, table, summary>>

\* statusChan <- status: blocks while the buffer is full, panics on a closed
\* channel
GoSend(i) ==
    /\ gpc[i] = "send"
    /\ ~panicked
    /\ mpc # "exit"
    /\ chanClosed \/ Len(statusChan) < ChanCap
    /\ IF chanClosed
       THEN /\ panicked' = TRUE
            /\ UNCHANGED <<statusChan, gpc>>
       ELSE /\ statusChan' = Append(statusChan, gstatus[i])
            /\ gpc' = [gpc EXCEPT ![i] = "deferred"]
            /\ UNCHANGED panicked
    /\ UNCHANGED <<probeVars, walkVars, fixVars, outputFile, wd, csvFile, received,
                   repos, dirtyOnly, mpc, spawned, gstatus, wg, chanClosed,
                   cpc, results, table, summary>>

\* defer wg.Done()
GoDone(i) ==
    /\ gpc[i] = "deferred"
    /\ ~panicked
    /\ mpc # "exit"
    /\ wg' = wg - 1
    /\ gpc' = [gpc EXCEPT ![i] = "exited"]
    /\ UNCHANGED <<probeVars, walkVars, fixVars, outputFile, wd, csvFile, received,
                   repos, dirtyOnly, mpc, spawned, gstatus, statusChan,
                   chanClosed, cpc, panicked, results, table, summary>>

\* The closer goroutine: wg.Wait()
CloserWait ==
    /\ cpc = "wait"
    /\ ~panicked
    /\ mpc # "exit"
    /\ WaitReturns
    /\ cpc' = "close"
    /\ UNCHANGED <<probeVars, walkVars, fixVars, outputFile, wd, csvFile, received,
                   repos, dirtyOnly, mpc, spawned, gpc, gstatus, wg,
                   statusChan, chanClosed, panicked, results, table, summary>>

\* The closer goroutine: close(statusChan)
CloserClose ==
    /\ cpc = "close"
    /\ ~panicked
    /\ mpc # "exit"
    /\ IF chanClosed
       THEN panicked' = TRUE /\ UNCHANGED chanClosed
       ELSE chanClosed' = TRUE /\ UNCHANGED panicked
    /\ cpc' = "exited"
    /\ UNCHANGED <<probeVars, walkVars, fixVars, outputFile, wd, csvFile, received,
                   repos, dirtyOnly, mpc, spawned, gpc, gstatus, wg,
                   statusChan, results, table, summary>>

\* One iteration of for status := range statusChan
MainReceive ==
    /\ mpc = "collect"
    /\ ~panicked
    /\ statusChan # << >>
    /\ statusChan' = Tail(statusChan)
    /\ received' = Append(received, Head(statusChan))
    /\ results' = IF Dropped(Head(statusChan)) THEN results
                  ELSE Append(results, Head(statusChan))
    /\ UNCHANGED <<probeVars, walkVars, fixVars, outputFile, wd, csvFile, repos,
                   dirtyOnly, mpc, spawned, gpc, gstatus, wg, chanClosed, cpc,
                   panicked, table, summary>>

\* The range loop ends
MainRangeEnd ==
    /\ mpc = "collect"
    /\ ~panicked
    /\ RangeEnds
    /\ mpc' = "display"
    /\ UNCHANGED <<probeVars, walkVars, fixVars, outputFile, wd, csvFile, received,
                   repos, dirtyOnly, spawned, gpc, gstatus, wg, statusChan,
                   chanClosed, cpc, panicked, results, table, summary>>

\* displayRepoStatusTable(results): os.Getwd(), then one row per status
MainDisplay ==
    /\ mpc = "display"
    /\ ~panicked
    /\ wd' \in WorkingDirs
    /\ table' = [k \in 1..Len(results) |-> Row(results[k], wd')]
    /\ mpc' = "export"
    /\ UNCHANGED <<probeVars, walkVars, fixVars, outputFile, csvFile, received, repos,
                   dirtyOnly, spawned, gpc, gstatus, wg, statusChan, chanClosed, cpc,
                   panicked, results, summary>>

\* if outputFile != "" { err := exportToCSV(results, outputFile); ... }
MainExport ==
    /\ mpc = "export"
    /\ ~panicked
    /\ IF outputFile = << >>
       THEN UNCHANGED csvFile
       ELSE \E o \in ExportOutcomes(Len(results)) :
               csvFile' = <<ExportToCSV(results, wd, o)>>
    /\ mpc' = "summary"
    /\ UNCHANGED <<probeVars, walkVars, fixVars, outputFile, wd, received, repos,
                   dirtyOnly, spawned, gpc, gstatus, wg, statusChan, chanClosed, cpc,
                   panicked, results, table, summary>>

\* The summary loop and line; main returns
MainSummary ==
    /\ mpc = "summary"
    /\ ~panicked
    /\ summary' = <<[cleanCount |-> Count(results, "Clean"),
                     dirtyCount |-> Count(results, "Dirty"),
                     errorCount |-> Count(results, "Error"),
                     printsClean |-> ~dirtyOnly]>>
    /\ mpc' = "exit"
    /\ UNCHANGED <<probeVars, walkVars, fixVars, outputFile, wd, csvFile, received,
                   repos, dirtyOnly, spawned, gpc, gstatus, wg, statusChan,
                   chanClosed, cpc, panicked, results, table>>

Next ==
    \/ MainStart
    \/ MainSpawn
    \/ MainStartCloser
    \/ \E i \in 1..Len(repos) : GoProbe(i)
    \/ \E i \in 1..Len(repos) : GoHang(i)
    \/ \E i \in 1..Len(repos) : GoSend(i)
    \/ \E i \in 1..Len(repos) : GoDone(i)
    \/ CloserWait
    \/ CloserClose
    \/ MainReceive
    \/ MainRangeEnd
    \/ MainDisplay
    \/ MainExport
    \/ MainSummary

Spec == MainInit /\ [][Next]_vars

\* The steps of the main goroutine, of the closer and of probe goroutine i
\* once git has answered it.
MainStep ==
    \/ MainStart
    \/ MainSpawn
    \/ MainStartCloser
    \/ MainReceive
    \/ MainRangeEnd
    \/ MainDisplay
    \/ MainExport
    \/ MainSummary

CloserStep == CloserWait \/ CloserClose

GoStep(i) == i <= Len(repos) /\ (GoProbe(i) \/ GoSend(i) \/ GoDone(i))

\* A step of some goroutine that can take one.
Progress == MainStep \/ CloserStep \/ \E i \in 1..Len(repos) : GoStep(i)

\* The Go scheduler does not leave the program idle while a goroutine can
\* take a step (the program has no loop a goroutine could spin in, so this
\* gives every goroutine its steps).  Nothing makes git answer: a probe whose
\* git invocations all return takes GoProbe, one that waits for git for ever
\* takes GoHang, and only that the probe does not stay undecided is assumed.
Fairness == WF_vars(Progress)

SpecFair == MainInit /\ [][Next]_vars /\ Fairness

----------------------------------------------------------------------------
(* fix-ownership: hasOwnershipIssue and fixOwnership over the located       *)
(* repositories, the tool being run twice over the same root                *)

\* The roots fix-ownership is given in the model: an absolute path, and a
\* path relative to the directory the tool is started in.
FixRoots(s) ==
    IF s = "\\" THEN { <<"C:", s, "src">>, <<"src">> } ELSE { <<s, "src">>, <<"src">> }

\* The directory the tool is started in.
FixCwd(s) == IF s = "\\" THEN <<"C:", s, "work">> ELSE <<s, "work">>

\* The i-th path findGitRepos returns: filepath.Dir of <root>/r<i>/.git
FixRepoPath(root, i) == root \o <<sep, "r">> \o Itoa(i)

\* git's is_absolute_path
GitIsAbsolute(p) ==
    /\ p # << >>
    /\ \/ p[1] = "/"
       \/ Len(p) >= 2 /\ p[1] \in {"C:", "D:"} /\ p[2] = "/"

\* The path git compares safe.directory values with: the absolute path of
\* the repository, with '/' between its elements.
GitWorkTree(repoPath) ==
    LET abs == IF VolumeName(repoPath) # << >> \/ IsPathSeparator(repoPath[1])
               THEN repoPath
               ELSE FixCwd(sep) \o <<sep>> \o repoPath IN
    ReplaceAll(abs, "\\", "/")

\* git's ownership check: the repository is the user's own, or a
\* safe.directory value is "*" or is an absolute path naming it.
GitTrusts(i, dirs) ==
    \/ i \notin foreign
    \/ \E k \in 1..Len(dirs) :
          \/ dirs[k] = <<"*">>
          \/ GitIsAbsolute(dirs[k]) /\ dirs[k] = GitWorkTree(repos[i])

\* What git -C <repo> rev-parse --git-dir returns
RevParseOutcomes(i) ==
    IF GitTrusts(i, safeDirs)
    THEN {Ok(<<".", "git", "\n">>), Exit(128, NotARepoStderr)}
    ELSE {Exit(128, DubiousStderr)}

\* What git config --global --add safe.directory <path> returns
ConfigOutcomes == {Ok(<< >>), Exit(255, <<"error: could not lock config file">>), NoExec}

\* hasOwnershipIssue, given what git returned
HasOwnershipIssue(o) ==
    Failed(o) /\ IsExitError(o) /\ Contains(o.stderr, <<"dubious ownership">>)

\* fixOwnership, given what git returned: whether it reports success, and
\* the safe.directory values afterwards
FixOwnership(repoPath, o) ==
    LET gitPath == ReplaceAll(repoPath, "\\", "/") IN
    [fixed |-> ~Failed(o),
     safeDirs |-> IF Failed(o) THEN safeDirs ELSE Append(safeDirs, gitPath)]

FixInit ==
    /\ sep \in {"/", "\\"}
    /\ rootDir \in FixRoots(sep)
    /\ \E n \in 0..MaxRepos : repos = [i \in 1..n |-> FixRepoPath(rootDir, i)]
    /\ foreign \in SUBSET (1..Len(repos))
    /\ safeDirs = << >>
    /\ fpc = "start"
    /\ frun = 1
    /\ fidx = 0
    /\ fixedCount = 0
    /\ checks = {}
    /\ fixes = {}
    /\ totals = << >>
    /\ tree = << >>
    /\ wpc = "idle"
    /\ wstack = << >>
    /\ visited = {}
    /\ walkErr = "nil"
    /\ MainIdle
    /\ ProbeIdle

\* The tool's process ends: the first run is followed by the second.
FixEndRun ==
    IF frun = 1
    THEN frun' = 2 /\ fpc' = "start"
    ELSE fpc' = "done" /\ UNCHANGED frun

\* main up to the loop: if len(repos) == 0 { ...; return }; fixedCount := 0
FixStart ==
    /\ fpc = "start"
    /\ IF Len(repos) = 0
       THEN FixEndRun /\ UNCHANGED <<fidx, fixedCount>>
       ELSE fpc' = "check" /\ fidx' = 1 /\ fixedCount' = 0 /\ UNCHANGED frun
    /\ UNCHANGED <<probeVars, mainVars, walkVars, repos, foreign, safeDirs, checks, fixes,
                   totals>>

\* One iteration of the loop up to the call of fixOwnership:
\* if hasOwnershipIssue(repo) { ... } else if debugMode { ... }
FixCheck ==
    /\ fpc = "check"
    /\ fidx <= Len(repos)
    /\ \E o \in RevParseOutcomes(fidx) :
          /\ checks' = checks \cup
                {[run |-> frun, repo |-> fidx, issue |-> HasOwnershipIssue(o)]}
          /\ IF HasOwnershipIssue(o)
             THEN fpc' = "fix" /\ UNCHANGED fidx
             ELSE fidx' = fidx + 1 /\ UNCHANGED fpc
    /\ UNCHANGED <<probeVars, mainVars, walkVars, repos, frun, fixedCount, foreign, safeDirs,
                   fixes, totals>>

\* The rest of the iteration: if fixOwnership(repo) { fixedCount++; ... } else { ... }
FixApply ==
    /\ fpc = "fix"
    /\ \E o \in ConfigOutcomes :
          LET r == FixOwnership(repos[fidx], o) IN
          /\ safeDirs' = r.safeDirs
          /\ fixes' = fixes \cup {[run |-> frun, repo |-> fidx, ok |-> r.fixed]}
          /\ fixedCount' = IF r.fixed THEN fixedCount + 1 ELSE fixedCount
    /\ fidx' = fidx + 1
    /\ fpc' = "check"
    /\ UNCHANGED <<probeVars, mainVars, walkVars, repos, frun, foreign, checks, totals>>

\* After the loop: fmt.Printf("\nFixed ownership for %d repositories.\n", fixedCount)
FixReport ==
    /\ fpc = "check"
    /\ fidx > Len(repos)
    /\ totals' = Append(totals, fixedCount)
    /\ FixEndRun
    /\ UNCHANGED <<probeVars, mainVars, walkVars, repos, fidx, fixedCount, foreign, safeDirs,
                   checks, fixes>>

FixNext ==
    \/ FixStart
    \/ FixCheck
    \/ FixApply
    \/ FixReport

FixSpec == FixInit /\ [][FixNext]_vars

----------------------------------------------------------------------------
(* findGitRepos: filepath.Walk over a directory tree *)

GIT == <<".", "git">>
A == <<"a">>
BIN == <<"bin">>

\* The entries a tree of the model may hold, as the names leading to them
\* from the scan root (<< >> is the root itself).
Nodes == { << >>, <<GIT>>, <<GIT, A>>, <<A>>, <<A, GIT>>, <<BIN>>, <<BIN, GIT>> }

\* What an entry is: absent; a file; a directory; a directory that cannot be
\* read (readDirNames fails); an entry the parent lists and lstat fails on.
KindsOf(n) ==
    IF n = << >> THEN {"file", "dir", "unreadable", "nolstat"}
    ELSE IF n \in {<<GIT, A>>, <<BIN, GIT>>} THEN {"absent", "dir"}
    ELSE {"absent", "file", "dir", "unreadable", "nolstat"}

IsDirKind(k) == k \in {"dir", "unreadable"}

Parent(n) == SubSeq(n, 1, Len(n) - 1)

Trees ==
    { t \in [Nodes -> {"absent", "file", "dir", "unreadable", "nolstat"}] :
        \A n \in Nodes :
            /\ t[n] \in KindsOf(n)
            /\ (n # << >> /\ t[n] # "absent") => IsDirKind(t[Parent(n)]) }

\* The scan roots of the model: the current directory, a directory, a
\* directory named with a trailing separator, a .git directory named without
\* and with a trailing separator, the Windows system directory.
RootDirs(s) ==
    { <<".">>, <<"r">>, <<"r", s>>, <<"r", s, ".", "git">>, <<"r", s, ".", "git", s>>,
      <<s, "Windows">> }

\* readDirNames: the names of a directory's entries, sorted (".git" < "a" < "bin")
ReadDirNames(t, n) ==
    (IF Append(n, GIT) \in Nodes /\ t[Append(n, GIT)] # "absent" THEN <<GIT>> ELSE << >>)
    \o (IF Append(n, A) \in Nodes /\ t[Append(n, A)] # "absent" THEN <<A>> ELSE << >>)
    \o (IF Append(n, BIN) \in Nodes /\ t[Append(n, BIN)] # "absent" THEN <<BIN>> ELSE << >>)

\* The skip rules of the walk callback
ShouldSkip(path) ==
    LET base == Base(path) IN
    \/ HasPrefix(base, <<".">>)
    \/ base = <<"node_modules">>
    \/ base = <<"vendor">>
    \/ base = <<"bin">>
    \/ base = <<"obj">>
    \/ Contains(path, <<"\\", "Windows", "\\">>)
    \/ Contains(path, <<"\\", "Program Files", "\\">>)
    \/ Contains(path, <<"\\", "Program Files (x86)", "\\">>)

\* The callback hands the error back to filepath.Walk.
WalkFnPropagates(path, isDir, failed, rs) ==
    IF failed THEN [ret |-> "error", repos |-> rs]
    ELSE IF isDir THEN
        IF Base(path) = GIT THEN [ret |-> "SkipDir", repos |-> Append(rs, Dir(path))]
        ELSE IF ShouldSkip(path) THEN [ret |-> "SkipDir", repos |-> rs]
        ELSE [ret |-> "nil", repos |-> rs]
    ELSE [ret |-> "nil", repos |-> rs]

\* The walk callback: what it returns and the repos slice after it.
\* failed: the err argument is not nil.
WalkFn(path, isDir, failed, rs) ==
    IF failed THEN [ret |-> "nil", repos |-> rs]
    ELSE IF isDir THEN
        IF Base(path) = GIT THEN [ret |-> "SkipDir", repos |-> Append(rs, Dir(path))]
        ELSE IF ShouldSkip(path) THEN [ret |-> "SkipDir", repos |-> rs]
        ELSE [ret |-> "nil", repos |-> rs]
    ELSE [ret |-> "nil", repos |-> rs]

\* filepath's walk(path, info, walkFn) up to its loop: the callback's call,
\* and either what walk returns or "descend" with the names to range over.
WalkEntry(path, n, rs) ==
    IF ~IsDirKind(tree[n])
    THEN LET r == WalkFn(path, FALSE, FALSE, rs) IN
         [ret |-> r.ret, repos |-> r.repos, names |-> << >>, failed |-> FALSE]
    ELSE LET failed == tree[n] = "unreadable"
             r == WalkFn(path, TRUE, failed, rs) IN
         IF failed \/ r.ret # "nil"
         THEN [ret |-> r.ret, repos |-> r.repos, names |-> << >>, failed |-> failed]
         ELSE [ret |-> "descend", repos |-> r.repos, names |-> ReadDirNames(tree, n),
               failed |-> FALSE]

RECURSIVE Unwind(_, _)
\* walk returns e from the directory whose frame was just popped: each
\* caller up the stack goes on with its next entry after SkipDir and returns
\* any other error itself.
Unwind(stk, e) ==
    IF stk = << >> THEN [stack |-> stk, ret |-> e]
    ELSE IF e = "SkipDir" THEN [stack |-> stk, ret |-> "nil"]
    ELSE Unwind(SubSeq(stk, 1, Len(stk) - 1), e)

\* filepath.Walk's own return: SkipDir from the root is no error.
WalkResult(e) == IF e = "SkipDir" THEN "nil" ELSE e

Visit(path, n, failed, ret) == [path |-> path, node |-> n, failed |-> failed, ret |-> ret]

WalkInit ==
    /\ sep \in {"/", "\\"}
    /\ rootDir \in RootDirs(sep)
    /\ tree \in Trees
    /\ wpc = "start"
    /\ wstack = << >>
    /\ visited = {}
    /\ walkErr = "nil"
    /\ repos = << >>
    /\ MainIdle
    /\ ProbeIdle
    /\ FixIdle

\* filepath.Walk(rootDir, fn): os.Lstat(root), then fn or walk on the root
WalkRoot ==
    /\ wpc = "start"
    /\ IF tree[<< >>] = "nolstat"
       THEN LET r == WalkFn(rootDir, FALSE, TRUE, repos) IN
            /\ repos' = r.repos
            /\ visited' = visited \cup {Visit(rootDir, << >>, TRUE, r.ret)}
            /\ walkErr' = WalkResult(r.ret)
            /\ wpc' = "done"
            /\ UNCHANGED wstack
       ELSE LET w == WalkEntry(rootDir, << >>, repos) IN
            /\ repos' = w.repos
            /\ visited' = visited \cup
                  {Visit(rootDir, << >>, w.failed,
                         IF w.ret = "descend" THEN "nil" ELSE w.ret)}
            /\ IF w.ret = "descend"
               THEN /\ wstack' = <<[path |-> rootDir, node |-> << >>, names |-> w.names]>>
                    /\ wpc' = "walk"
                    /\ UNCHANGED walkErr
               ELSE /\ walkErr' = WalkResult(w.ret)
                    /\ wpc' = "done"
                    /\ UNCHANGED wstack
    /\ UNCHANGED <<probeVars, mainVars, fixVars, sep, rootDir, tree>>

\* One iteration of walk's loop over the names of the directory on top of
\* the stack: Join, lstat, then the callback (lstat failed) or walk.
WalkChild ==
    /\ wpc = "walk"
    /\ wstack # << >>
    /\ wstack[Len(wstack)].names # << >>
    /\ LET top == wstack[Len(wstack)]
           below == SubSeq(wstack, 1, Len(wstack) - 1)
           name == Head(top.names)
           n == Append(top.node, name)
           filename == JoinPath(top.path, name)
           rest == [top EXCEPT !.names = Tail(top.names)]
           w == IF tree[n] = "nolstat"
                THEN LET r == WalkFn(filename, FALSE, TRUE, repos) IN
                     [ret |-> r.ret, repos |-> r.repos, names |-> << >>, failed |-> TRUE]
                ELSE WalkEntry(filename, n, repos)
           \* whether the loop goes on with the next name
           goesOn == \/ w.ret = "nil"
                     \/ w.ret = "SkipDir" /\ (tree[n] = "nolstat" \/ IsDirKind(tree[n]))
           u == Unwind(below, w.ret) IN
       /\ repos' = w.repos
       /\ visited' = visited \cup
             {Visit(filename, n, w.failed, IF w.ret = "descend" THEN "nil" ELSE w.ret)}
       /\ IF w.ret = "descend"
          THEN /\ wstack' = Append(below, rest)
                               \o <<[path |-> filename, node |-> n, names |-> w.names]>>
               /\ UNCHANGED <<wpc, walkErr>>
          ELSE IF goesOn
          THEN /\ wstack' = Append(below, rest)
               /\ UNCHANGED <<wpc, walkErr>>
          ELSE /\ wstack' = u.stack
               /\ wpc' = IF u.stack = << >> THEN "done" ELSE "walk"
               /\ walkErr' = IF u.stack = << >> THEN WalkResult(u.ret) ELSE walkErr
    /\ UNCHANGED <<probeVars, mainVars, fixVars, sep, rootDir, tree>>

\* walk's loop is over: walk returns nil to its caller
WalkReturn ==
    /\ wpc = "walk"
    /\ wstack # << >>
    /\ wstack[Len(wstack)].names = << >>
    /\ wstack' = SubSeq(wstack, 1, Len(wstack) - 1)
    /\ wpc' = IF Len(wstack) = 1 THEN "done" ELSE "walk"
    /\ UNCHANGED <<probeVars, mainVars, fixVars, repos, sep, rootDir, tree, visited, walkErr>>

WalkNext ==
    \/ WalkRoot
    \/ WalkChild
    \/ WalkReturn

WalkSpec == WalkInit /\ [][WalkNext]_vars

----------------------------------------------------------------------------
(* the status prober's claims, checked under ProbeSpec *)

Returned == ppc = "done"
AllFlagsFalse(st) ==
    ~st.HasUnstaged /\ ~st.HasStaged /\ ~st.HasUntracked /\ ~st.HasUnpushed
Invoked(cmd) == \E i \in 1..Len(calls) : calls[i].cmd = cmd
LastCall == calls[Len(calls)]
ListCmds == {"diff --name-only", "diff --cached --name-only",
             "ls-files --others --exclude-standard"}
LaterCmds(cmd) ==
    CASE cmd = "diff --name-only" ->
            {"diff --cached --name-only", "ls-files --others --exclude-standard",
             "rev-list --count @{u}..HEAD", "rev-list --count HEAD"}
      [] cmd = "diff --cached --name-only" ->
            {"ls-files --others --exclude-standard",
             "rev-list --count @{u}..HEAD", "rev-list --count HEAD"}
      [] OTHER -> {"rev-list --count @{u}..HEAD", "rev-list --count HEAD"}
\* The validity check failed with the ownership/trust signature.
OwnershipRejected ==
    /\ calls # << >>
    /\ calls[1].cmd = "rev-parse --git-dir"
    /\ calls[1].res.kind = "exit"
    /\ Contains(calls[1].res.stderr, <<"dubious ownership">>)
\* The result of the branch command, once it has run.
BranchRan == Len(calls) >= 2 /\ calls[2].cmd = "branch --show-current"
BranchRes == calls[2].res
BranchDetached == BranchRes.kind = "exit" /\ BranchRes.code = 1

\* C1: every status checkRepoStatus returns satisfies IsClean => Error = "":
\* a status is never both clean and errored.
C1_CleanImpliesNoError ==
    Returned => (status.IsClean => status.Error = << >>)

\* C3: when the validity check fails with the ownership signature,
\* checkRepoStatus returns at once: rev-parse --git-dir is the only git command
\* invoked, Error is the fix hint followed by the repository path with every
\* backslash turned into '/', and the four flags and IsClean are false.
C3_OwnershipReturnsAtOnce ==
    OwnershipRejected =>
        /\ Returned
        /\ Len(calls) = 1
        /\ Len(status.Error) = 1 + Len(status.Path)
        /\ status.Error[1] =
              "Git ownership issue - run: git config --global --add safe.directory "
        /\ \A i \in 1..Len(status.Path) :
              /\ status.Error[i + 1] # "\\"
              /\ status.Error[i + 1] =
                    (IF status.Path[i] = "\\" THEN "/" ELSE status.Path[i])
        /\ AllFlagsFalse(status)
        /\ ~status.IsClean

\* C3's case: an ownership-rejected repository whose path has a backslash.
C3_Witness ==
    /\ OwnershipRejected
    /\ Returned
    /\ \E i \in 1..Len(status.Path) : status.Path[i] = "\\"

\* C4: a failure of the unstaged, staged or untracked listing ends the probe
\* at that step: the probe returns with the failed command as the last one
\* invoked, the flag of the failed step and of every later step is false, and
\* Error ends with the failure text, which follows the earlier Error and
\* "; " when the branch step had set one, and a message of its own otherwise.
C4_ListFailureAborts ==
    [][ (/\ ppc \in {"unstaged", "staged", "untracked"}
         /\ Len(calls') = Len(calls) + 1
         /\ Failed(calls'[Len(calls')].res))
        => LET c == calls'[Len(calls')]
               t == ErrText(c.res) IN
           /\ ppc' = "done"
           /\ c.cmd \in ListCmds
           /\ (ppc = "unstaged") => ~status'.HasUnstaged
           /\ (ppc \in {"unstaged", "staged"}) => ~status'.HasStaged
           /\ ~status'.HasUntracked
           /\ ~status'.HasUnpushed
           /\ ~status'.IsClean
           /\ \A i \in 1..Len(calls') : calls'[i].cmd \notin LaterCmds(c.cmd)
           /\ Len(status'.Error) > Len(t)
           /\ SubSeq(status'.Error, Len(status'.Error) - Len(t) + 1,
                     Len(status'.Error)) = t
           /\ (status.Error # << >>) => HasPrefix(status'.Error, status.Error \o <<"; ">>)
           /\ (status.Error = << >>) => ~Contains(status'.Error, <<"; ">>)
      ]_vars

\* C4's case: the staged listing failed after the branch step had set Error.
C4_Witness ==
    /\ Returned
    /\ LastCall.cmd = "diff --cached --name-only"
    /\ Failed(LastCall.res)
    /\ HasPrefix(status.Error, <<"Branch issue: ">>)
    /\ Contains(status.Error, <<"; ", "staged check failed: ">>)

\* C5: a failure of the branch step never ends the probe: the unstaged-diff
\* command is invoked next; after a failure that is not the detached one
\* Branch is "unknown" and Error is set, after a detached failure whose hash
\* fallback fails too Branch is "detached HEAD" and Error is set.
C5_BranchFailureContinues ==
    (BranchRan /\ Failed(BranchRes) /\ ppc # "branch") =>
        /\ (ppc = "unstaged") \/ Invoked("diff --name-only")
        /\ ~BranchDetached =>
              /\ status.Branch = <<"unknown">>
              /\ HasPrefix(status.Error, <<"Branch issue: ">>)
        /\ (BranchDetached /\ Failed(calls[3].res)) =>
              /\ calls[3].cmd = "rev-parse --short HEAD"
              /\ status.Branch = <<"detached HEAD">>
              /\ HasPrefix(status.Error, <<"Branch issue: ">>)

\* C5's case: the branch command failed and the unstaged diff ran after it.
C5_Witness ==
    /\ BranchRan
    /\ Failed(BranchRes)
    /\ BranchDetached
    /\ Failed(calls[3].res)
    /\ Invoked("diff --name-only")
    /\ Returned

\* C6: the unpushed step never changes Error and always computes IsClean;
\* when the upstream count fails with exit code 128, HasUnpushed is true
\* exactly when the fallback count of HEAD succeeds with a count other than
\* 0; after any other failure HasUnpushed is false.
C6_UnpushedBestEffort ==
    [][ (ppc = "unpushed") =>
          LET o == calls'[Len(calls) + 1].res
              fellBack == o.kind = "exit" /\ o.code = 128
              h == calls'[Len(calls')].res IN
          /\ ppc' = "done"
          /\ calls'[Len(calls) + 1].cmd = "rev-list --count @{u}..HEAD"
          /\ status'.Error = status.Error
          /\ status'.IsClean = AllFlagsFalse(status')
          /\ fellBack =>
                /\ Len(calls') = Len(calls) + 2
                /\ calls'[Len(calls')].cmd = "rev-list --count HEAD"
                /\ status'.HasUnpushed <=>
                      (/\ ~Failed(h)
                       /\ \E n \in 1..MaxCount : h.out = Itoa(n) \o <<"\n">>)
          /\ (Failed(o) /\ ~fellBack) =>
                /\ Len(calls') = Len(calls) + 1
                /\ ~status'.HasUnpushed
          /\ (~Failed(o)) =>
                (status'.HasUnpushed <=> \E n \in 1..MaxCount : o.out = Itoa(n) \o <<"\n">>)
      ]_vars

\* C6's case: no upstream, the fallback counted commits, Error was set by the
\* branch step and is still what it was.
C6_Witness ==
    /\ Returned
    /\ Len(calls) >= 2
    /\ calls[Len(calls) - 1].cmd = "rev-list --count @{u}..HEAD"
    /\ calls[Len(calls) - 1].res.code = 128
    /\ LastCall.res.out = <<"1", "0", "\n">>
    /\ status.HasUnpushed
    /\ status.Error = <<"Branch issue: ", "exit status ", "1", "2", "8">>

\* C7 as stated: in every returned status IsClean is true iff the four flags
\* are all false.
C7_IsCleanIffNoFlags ==
    Returned => (status.IsClean <=> AllFlagsFalse(status))

\* C7 amended: in every returned status IsClean implies that the four flags
\* are all false, and the converse holds when the probe ran to its end (the
\* unpushed step ran); a status returned early has IsClean false.
C7_IsCleanAtEnd ==
    Returned =>
        /\ status.IsClean => AllFlagsFalse(status)
        /\ Invoked("rev-list --count @{u}..HEAD") =>
              (status.IsClean <=> AllFlagsFalse(status))
        /\ ~Invoked("rev-list --count @{u}..HEAD") => ~status.IsClean

\* C7's case: the probe ran to its end and found nothing.
C7_Witness ==
    /\ Returned
    /\ Invoked("rev-list --count @{u}..HEAD")
    /\ status.IsClean
    /\ AllFlagsFalse(status)

----------------------------------------------------------------------------
(* the dispatcher's claims, checked under Spec *)

Reporting == mpc \in {"display", "export", "summary", "exit"} /\ repos # << >>

\* C2: with --dirty-only off, once main is past the collecting loop (at
\* displayRepoStatusTable, at the summary or returned), one probe was started
\* for every located path and results holds exactly one status for each
\* located path, the one that path's probe computed, and nothing else.
C2_AllResultsBeforeReport ==
    (Reporting /\ ~dirtyOnly) =>
        /\ spawned = Len(repos)
        /\ \A i \in 1..Len(repos) : gpc[i] \notin {"unborn", "probe", "hung", "send"}
        /\ Len(results) = Len(repos)
        /\ \A i \in 1..Len(repos) :
              /\ Cardinality({k \in 1..Len(results) : results[k].Path = repos[i]}) = 1
              /\ \E k \in 1..Len(results) : results[k] = gstatus[i]
        /\ (mpc \in {"export", "summary", "exit"}) => Len(table) = Len(repos)

\* C2's case: the table was printed for several repositories whose statuses
\* arrived in another order than the paths were located in.
C2_Witness ==
    /\ mpc = "summary"
    /\ ~dirtyOnly
    /\ Len(repos) >= 2
    /\ results[1].Path = repos[2]
    /\ Len(table) = Len(repos)

\* The last piece of a table row's status text: the marker word.
MarkerOf(row) == <<row.Status[Len(row.Status)]>>

\* What --dirty-only keeps, in the claim's words.
KeptByDirtyOnly(st) == st.Error # << >> \/ ~st.IsClean

ErrorFree == \A i \in 1..Len(repos) : gstatus[i].Error = << >>
DirtyRepos == {i \in 1..Len(repos) : gstatus[i].Error = << >> /\ ~gstatus[i].IsClean}
CleanRepos == {i \in 1..Len(repos) : gstatus[i].Error = << >> /\ gstatus[i].IsClean}

\* C11: with --dirty-only, once main is past the collecting loop, results
\* holds exactly the probed statuses with Error non-empty or IsClean false
\* (one is missing iff it is clean and error-free); the table has one row per
\* kept status, the export one record per kept status after the header, the
\* summary counts the kept statuses only and prints no clean count; and when
\* no probe reported an error the table has exactly as many rows as there
\* are dirty repositories.
C11_DirtyOnlyKeepsDirtyAndErrors ==
    (Reporting /\ dirtyOnly) =>
        /\ \A k \in 1..Len(results) : KeptByDirtyOnly(results[k])
        /\ \A i \in 1..Len(repos) :
              Cardinality({k \in 1..Len(results) : results[k] = gstatus[i]})
                  = IF KeptByDirtyOnly(gstatus[i]) THEN 1 ELSE 0
        /\ Len(results) = Len(repos) - Cardinality(CleanRepos)
        /\ (mpc \in {"export", "summary", "exit"}) =>
              /\ Len(table) = Len(results)
              /\ ErrorFree => Len(table) = Cardinality(DirtyRepos)
        /\ (csvFile # << >> /\ csvFile[1].err = "nil") =>
              Len(csvFile[1].records) = 1 + Len(results)
        /\ (summary # << >>) =>
              /\ ~summary[1].printsClean
              /\ summary[1].cleanCount = 0
              /\ summary[1].dirtyCount = Cardinality(DirtyRepos)
              /\ summary[1].dirtyCount + summary[1].errorCount = Len(table)

\* C11's case: a run with --dirty-only over a clean and a dirty repository
\* has printed one row and its summary.
C11_Witness ==
    /\ mpc = "exit"
    /\ dirtyOnly
    /\ Cardinality(CleanRepos) = 1
    /\ Cardinality(DirtyRepos) = 1
    /\ Len(table) = 1
    /\ summary # << >>

Exported == mpc \in {"summary", "exit"} /\ csvFile # << >> /\ csvFile[1].err = "nil"

C15_ErrorClassifiedOnce ==
    (mpc = "exit" /\ summary # << >>) =>
        LET s == summary[1]
            Marked(m) == {k \in 1..Len(table) : MarkerOf(table[k]) = <<m>>} IN
        /\ Len(table) = Len(results)
        /\ \A k \in 1..Len(table) :
              Cardinality({m \in {"Error", "Clean", "Dirty"} : MarkerOf(table[k]) = <<m>>}) = 1
        /\ \A k \in 1..Len(results) :
              (results[k].Error # << >>) <=> (MarkerOf(table[k]) = <<"Error">>)
        /\ s.errorCount = Cardinality({k \in 1..Len(results) : results[k].Error # << >>})
        /\ s.errorCount = Cardinality(Marked("Error"))
        /\ s.cleanCount = Cardinality(Marked("Clean"))
        /\ s.dirtyCount = Cardinality(Marked("Dirty"))
        /\ s.cleanCount + s.dirtyCount + s.errorCount = Len(table)

\* C15's case: a finished run with a status that has an Error and IsClean
\* true, next to a clean one.
C15_Witness ==
    /\ mpc = "exit"
    /\ summary # << >>
    /\ \E k \in 1..Len(results) : results[k].Error # << >> /\ results[k].IsClean
    /\ \E k \in 1..Len(results) : results[k].Error = << >> /\ results[k].IsClean

Delivered(i) == gpc[i] \in {"deferred", "exited"}

\* The statuses that left a probe: those received, then those in the buffer.
InFlight == received \o statusChan

\* C16: in every reachable state no goroutine has panicked (no send on, and
\* no second close of, a closed channel); the channel is closed only by the
\* closer, after every probe's send; a probe at its send finds a free slot;
\* and each probe's status is, from its send on, exactly once among the
\* statuses received or buffered, all of them received once the loop is over.
C16_ChannelDiscipline ==
    /\ ~panicked
    /\ chanClosed => (cpc = "exited" /\ \A i \in 1..Len(repos) : Delivered(i))
    /\ (cpc = "exited") => chanClosed
    /\ Len(statusChan) <= ChanCap
    /\ \A i \in 1..Len(repos) :
          /\ (gpc[i] = "send") => (~chanClosed /\ Len(statusChan) < ChanCap)
          /\ Cardinality({k \in 1..Len(InFlight) : InFlight[k].Path = repos[i]})
                = IF Delivered(i) THEN 1 ELSE 0
          /\ Delivered(i) => \E k \in 1..Len(InFlight) : InFlight[k] = gstatus[i]
    /\ Len(InFlight) = Cardinality({i \in 1..Len(repos) : Delivered(i)})
    /\ Reporting => (chanClosed /\ statusChan = << >> /\ Len(received) = Len(repos))

\* C16's case: both probes sent before main received anything, the channel
\* was closed and drained, and the statuses arrived in the other order.
C16_Witness ==
    /\ Len(repos) = 2
    /\ chanClosed
    /\ statusChan = << >>
    /\ Len(received) = 2
    /\ received[1].Path = repos[2]

\* Probe i hangs, or has sent its status.
Settled(i) == i <= Len(repos) /\ (gpc[i] = "hung" \/ Delivered(i))

NoHang == \A i \in 1..Len(repos) : gpc[i] # "hung"
\* main has returned after the table (one row per kept status) and the summary.
Finished ==
    chanClosed /\ Len(table) = Len(results) /\ summary # << >> /\ mpc = "exit"

\* C14: in a run that dispatches probes, if no probe waits for git for ever,
\* main eventually has the channel closed, the table and the summary printed
\* and has returned; while a probe hangs the channel is not closed and main
\* is not past the collecting loop; and every probe that was started and does
\* not hang itself eventually has sent its status, whatever the others do.
C14_TerminatesUnlessHung ==
    /\ ([]NoHang) => <>(repos # << >> => Finished)
    /\ [](~NoHang => (~chanClosed /\ cpc # "exited" /\ ~Reporting))
    /\ <>(\A i \in 1..Len(repos) : Settled(i))

\* C14's case: one probe hangs, the other has delivered its status and main
\* has received it, the closer still waits.
C14_Witness ==
    /\ Len(repos) = 2
    /\ gpc[1] = "hung"
    /\ gpc[2] = "exited"
    /\ Len(received) = 1
    /\ cpc = "wait"
    /\ mpc = "collect"

----------------------------------------------------------------------------
(* the reporter's rows for the prober's statuses, checked under ProbeSpec *)

\* C17: a status checkRepoStatus returns with an empty Error and IsClean
\* false has at least one of its four change flags set; so the row the
\* reporter prints for it carries the Dirty marker and a non-empty list of
\* changes, and no returned status gets a Dirty row with nothing listed.
C17_DirtyHasChange ==
    Returned =>
        /\ (status.Error = << >> /\ ~status.IsClean) =>
              /\ ~AllFlagsFalse(status)
              /\ Changes(status) # << >>
        /\ (StatusText(status)[3] = "Dirty") =>
              /\ status.Error = << >> /\ ~status.IsClean
              /\ ChangesText(status) # << >>
              /\ ChangesText(status) = Join(Changes(status), ", ")

\* C17's case: the probe ran to its end and found unpushed commits only.
C17_Witness ==
    /\ Returned
    /\ status.Error = << >>
    /\ ~status.IsClean
    /\ status.HasUnpushed
    /\ ~status.HasUnstaged /\ ~status.HasStaged /\ ~status.HasUntracked
    /\ StatusText(status)[3] = "Dirty"

----------------------------------------------------------------------------
(* the ownership fixer's claims, checked under FixSpec *)

FixedInRun(run, i) == [run |-> run, repo |-> i, ok |-> TRUE] \in fixes

\* C13: a repository that the first run of fix-ownership found
\* ownership-rejected and fixed with success is, in the second run over the
\* same root, not found ownership-rejected, gets no corrective command, and
\* is not part of the second run's total.
C13_SecondRunFindsNoIssue ==
    \A i \in 1..Len(repos) :
        FixedInRun(1, i) =>
            /\ [run |-> 2, repo |-> i, issue |-> TRUE] \notin checks
            /\ \A ok \in BOOLEAN : [run |-> 2, repo |-> i, ok |-> ok] \notin fixes
            /\ (Len(totals) = 2) =>
                  totals[2] = Cardinality({j \in 1..Len(repos) : FixedInRun(2, j) /\ j # i})

\* The same for a root given as an absolute path.
C13_AbsoluteRootIdempotent ==
    GitIsAbsolute(ReplaceAll(rootDir, "\\", "/")) => C13_SecondRunFindsNoIssue

\* The second run has checked a repository the first run fixed.
C13_Witness ==
    \E i \in 1..Len(repos) :
        /\ FixedInRun(1, i)
        /\ [run |-> 2, repo |-> i, issue |-> FALSE] \in checks
        /\ GitIsAbsolute(ReplaceAll(rootDir, "\\", "/"))
        /\ Len(totals) = 2

----------------------------------------------------------------------------
(* the locator's claims, checked under WalkSpec *)

RECURSIVE NodePath(_)
\* The path the walk forms for an entry of the tree.
NodePath(n) ==
    IF n = << >> THEN rootDir ELSE JoinPath(NodePath(Parent(n)), n[Len(n)])

\* The entry and the directories above it, the scan root included.
UpTo(n) == {SubSeq(n, 1, k) : k \in 0..Len(n)}

\* The directory directly contains a readable .git directory.
HoldsGitDir(d) == Append(d, GIT) \in Nodes /\ tree[Append(d, GIT)] = "dir"

\* findGitRepos returned the directory.
Found(d) == \E k \in 1..Len(repos) : Clean(repos[k]) = Clean(NodePath(d))

\* The callback lets the walk into the directory: it is no .git directory
\* and no skip rule excludes it.
Entered(e) == Base(NodePath(e)) # GIT /\ ~ShouldSkip(NodePath(e))

\* C8: findGitRepos never visits an entry beneath a directory named .git
\* and never returns a repository path whose last segment is .git.
C8_NeverInsideGit ==
    /\ \A v \in visited :
          LET es == Elements(v.path) IN \A i \in 1..(Len(es) - 1) : es[i] # GIT
    /\ \A k \in 1..Len(repos) :
          LET es == Elements(repos[k]) IN es = << >> \/ es[Len(es)] # GIT

\* C9: findGitRepos returns every directory at or under the scan root that
\* directly contains a .git directory and that neither is nor lies beneath a
\* directory below the root excluded by the skip rules, the root "."
\* included (stated for trees whose directories can all be read and for
\* roots that are not themselves .git directories).
C9_FindsEveryRepo ==
    (wpc = "done" /\ Base(rootDir) # GIT) =>
        \A d \in Nodes :
            (/\ \A e \in UpTo(d) : tree[e] = "dir"
             /\ HoldsGitDir(d)
             /\ \A e \in UpTo(d) \ {<< >>} : Entered(e))
            => Found(d)

\* C10: a traversal error on an entry never ends the walk: the callback
\* returns nil whenever it is handed an error, filepath.Walk returns no
\* error, and every directory that holds a readable .git directory and is
\* reached through readable directories that are not skipped is returned.
C10_ErrorsSwallowed ==
    /\ \A v \in visited : v.failed => v.ret = "nil"
    /\ walkErr = "nil"
    /\ (wpc = "done") =>
          \A d \in Nodes :
              (/\ \A e \in UpTo(d) : tree[e] = "dir" /\ Entered(e)
               /\ HoldsGitDir(d))
              => Found(d)

\* C10's case: the callback was handed an error for one entry, and the
\* repository in a sibling directory of that entry was returned.
C10_Witness ==
    /\ wpc = "done"
    /\ \E v \in visited :
          /\ v.failed
          /\ v.node # << >>
          /\ \E d \in Nodes \ {<< >>, v.node} :
                /\ Parent(d) = Parent(v.node)
                /\ HoldsGitDir(d)
                /\ Found(d)

=============================================================================
